---------------------------- MODULE Spec2Model ----------------------------
(***************************************************************************)
(* Netpbm image codecs (PBM, PGM, PPM) and in-memory raster transforms.    *)
(*                                                                         *)
(* A file is a sequence of bytes (0..255).  A Go string is the sequence of *)
(* its bytes, so a magic number is <<80, 49>> for "P1".  A raster is a     *)
(* sequence of rows (row 0 of the code is element 1 here), a row a         *)
(* sequence of samples.  uint8 arithmetic is taken modulo 256.             *)
(***************************************************************************)
EXTENDS Integers, Sequences, FiniteSets, TLC

VARIABLES
    kind,    \* "PBM" | "PGM" | "PPM": the Go type of the image
    img,     \* the image in memory
    op1,     \* the last in-memory operation applied ("none" at the start)
    arg1,    \* the arguments of op1
    ret1,    \* how op1 ended: [panic, err, val], val the value it returned
    prev1,   \* the image before op1 (NoImage where no operation is applied)
    nops,    \* how many in-memory operations were applied
    pc,      \* "mem", "aborted" (by a panic), "returned", "drawn", "saved", "read"
    file,    \* the bytes of the file on disk
    file0,   \* the bytes as Save wrote them, before any edit of the file
    mut,     \* which edit was made to the file ("none" when unedited)
    out      \* what the decoder returned: [err, panic, img]

vars == <<kind, img, op1, arg1, ret1, prev1, nops, pc, file, file0, mut, out>>

---------------------------------------------------------------------------
(* Bytes and strings *)

NL == 10
SP == 32
HASH == 35
ZERO == 48
MINUS == 45
PLUS == 43

P1 == <<80, 49>>
P2 == <<80, 50>>
P3 == <<80, 51>>
P4 == <<80, 52>>
P5 == <<80, 53>>
P6 == <<80, 54>>
P9 == <<80, 57>>

Min(a, b) == IF a < b THEN a ELSE b

\* unicode.IsSpace on the ASCII range: \t \n \v \f \r and space
IsSpace(b) == b \in {9, 10, 11, 12, 13, 32}

IsDigit(b) == b >= 48 /\ b <= 57

\* strconv/fmt decimal rendering of an integer (%d, Fprint, Fprintln)
RECURSIVE FormatNat(_)
FormatNat(n) ==
    IF n < 10 THEN <<ZERO + n>>
    ELSE Append(FormatNat(n \div 10), ZERO + (n % 10))

FormatInt(n) == IF n < 0 THEN <<MINUS>> \o FormatNat(-n) ELSE FormatNat(n)

\* strings.TrimSpace
RECURSIVE TrimLeft(_)
TrimLeft(s) ==
    IF s # <<>> /\ IsSpace(Head(s)) THEN TrimLeft(Tail(s)) ELSE s

RECURSIVE TrimRight(_)
TrimRight(s) ==
    IF s # <<>> /\ IsSpace(s[Len(s)]) THEN TrimRight(SubSeq(s, 1, Len(s) - 1))
    ELSE s

TrimSpace(s) == TrimRight(TrimLeft(s))

\* strings.Fields: the maximal runs of non-space bytes, in order
RECURSIVE FieldsFrom(_, _, _)
FieldsFrom(s, i, cur) ==
    IF i > Len(s) THEN (IF cur = <<>> THEN <<>> ELSE <<cur>>)
    ELSE IF IsSpace(s[i])
         THEN (IF cur = <<>> THEN <<>> ELSE <<cur>>) \o FieldsFrom(s, i + 1, <<>>)
         ELSE FieldsFrom(s, i + 1, Append(cur, s[i]))

Fields(s) == FieldsFrom(s, 1, <<>>)

---------------------------------------------------------------------------
(* fmt.Sscanf: the %d verb and the space of a format *)

\* the blanks a verb or a format space skips inside one line
RECURSIVE SkipBlank(_, _)
SkipBlank(s, i) ==
    IF i <= Len(s) /\ s[i] \in {9, 13, 32} THEN SkipBlank(s, i + 1) ELSE i

RECURSIVE DigitsEnd(_, _)
DigitsEnd(s, i) ==
    IF i <= Len(s) /\ IsDigit(s[i]) THEN DigitsEnd(s, i + 1) ELSE i

RECURSIVE DigitsValue(_, _, _, _)
DigitsValue(s, i, j, acc) ==
    IF i >= j THEN acc ELSE DigitsValue(s, i + 1, j, acc * 10 + (s[i] - ZERO))

\* %d into an int: blanks, an optional sign, at least one digit.
\* The result is [ok, val, next]: next is the index after the number.
ScanInt(s, i) ==
    LET a == SkipBlank(s, i)
        signed == a <= Len(s) /\ s[a] \in {MINUS, PLUS}
        b == IF signed THEN a + 1 ELSE a
        e == DigitsEnd(s, b)
        v == DigitsValue(s, b, e, 0)
    IN  IF e = b THEN [ok |-> FALSE, val |-> 0, next |-> a]
        ELSE [ok |-> TRUE,
              val |-> IF signed /\ s[a] = MINUS THEN -v ELSE v,
              next |-> e]

\* %d into a uint8: a number that does not fit 8 bits is an error
ScanUint8(s, i) ==
    LET r == ScanInt(s, i)
    IN  IF r.ok /\ (r.val < 0 \/ r.val > 255)
        THEN [ok |-> FALSE, val |-> 0, next |-> r.next]
        ELSE r

\* %d into a uint: a negative number is an error
ScanUint(s, i) ==
    LET r == ScanInt(s, i)
    IN  IF r.ok /\ r.val < 0
        THEN [ok |-> FALSE, val |-> 0, next |-> r.next]
        ELSE r

---------------------------------------------------------------------------
(* bufio.Reader over a regular file.  A reader is [pos, end]: pos bytes of  *)
(* the file are consumed and the buffer holds the bytes pos+1..end.         *)

\* bufio's default buffer size, the one bufio.NewReader(file) gives
defaultBufSize == 4096

NewReader == [pos |-> 0, end |-> 0]

\* reader.ReadString('\n'): [line, err, rd].  The line includes its '\n';
\* at the end of the file without one, err is TRUE (io.EOF).
RECURSIVE ReadStringFrom(_, _, _, _)
ReadStringFrom(f, start, pos, end) ==
    LET nl == {i \in (pos + 1)..end : f[i] = NL}
    IN  IF nl # {}
        THEN LET i == CHOOSE k \in nl : \A j \in (pos + 1)..(k - 1) : f[j] # NL
             IN  [line |-> SubSeq(f, start + 1, i), err |-> FALSE,
                  rd |-> [pos |-> i, end |-> end]]
        ELSE IF end - pos >= defaultBufSize
        THEN ReadStringFrom(f, start, end, end)        \* full buffer: keep the fragment
        ELSE IF end = Len(f)
        THEN [line |-> SubSeq(f, start + 1, Len(f)), err |-> TRUE,
              rd |-> [pos |-> Len(f), end |-> Len(f)]]
        ELSE ReadStringFrom(f, start, pos,             \* fill: one read of the file
                 Min(Len(f), end + (defaultBufSize - (end - pos))))

ReadString(f, rd) == ReadStringFrom(f, rd.pos, rd.pos, rd.end)

\* reader.Read(p) with len(p) = k: [n, err, from, rd].  The bytes read are
\* f[from+1 .. from+n].  The bytes come from at most one read of the file,
\* so n may be less than k although the file holds more.
BufioRead(f, rd, k) ==
    IF k = 0 THEN [n |-> 0, err |-> FALSE, from |-> rd.pos, rd |-> rd]
    ELSE IF rd.pos = rd.end /\ k >= defaultBufSize
    THEN LET n == Min(k, Len(f) - rd.pos)              \* large read, empty buffer
         IN  [n |-> n, err |-> (n = 0), from |-> rd.pos,
              rd |-> [pos |-> rd.pos + n, end |-> rd.pos + n]]
    ELSE LET end == IF rd.pos = rd.end
                    THEN Min(Len(f), rd.pos + defaultBufSize)
                    ELSE rd.end
             n == Min(k, end - rd.pos)
         IN  [n |-> n, err |-> (n = 0), from |-> rd.pos,
              rd |-> [pos |-> rd.pos + n, end |-> end]]

---------------------------------------------------------------------------
(* Decoder results *)

NoImage == [nil |-> TRUE]

\* (nil, err)
Failed == [err |-> TRUE, panic |-> FALSE, img |-> NoImage]

\* a run-time panic (make with a negative length, index out of range)
Panicked == [err |-> TRUE, panic |-> TRUE, img |-> NoImage]

\* (&image, nil)
Decoded(i) == [err |-> FALSE, panic |-> FALSE, img |-> i]

---------------------------------------------------------------------------
(* PBM: src/PBM.go *)

\* the "%d %d" dimension line: [ok, width, height]
ScanDimensions(line) ==
    LET w == ScanInt(line, 1)
        h == IF w.ok THEN ScanInt(line, w.next) ELSE w
    IN  [ok |-> w.ok /\ h.ok, width |-> w.val, height |-> h.val]

\* one P1 row of ReadPBM: the fields of the line, left to right; a field
\* past the width is an error, a missing field leaves the zero value
ReadP1Row(line, width) ==
    LET fields == Fields(line)
    IN  [err |-> Len(fields) > width,
         row |-> [x \in 1..width |-> x <= Len(fields) /\ fields[x] = <<49>>]]

RECURSIVE ReadP1Rows(_, _, _, _, _)
ReadP1Rows(f, rd, width, height, y) ==
    IF y >= height THEN [err |-> FALSE, data |-> <<>>]
    ELSE LET l == ReadString(f, rd)
         IN  IF l.err THEN [err |-> TRUE, data |-> <<>>]
             ELSE LET r == ReadP1Row(l.line, width)
                  IN  IF r.err THEN [err |-> TRUE, data |-> <<>>]
                      ELSE LET rest == ReadP1Rows(f, l.rd, width, height, y + 1)
                           IN  [err |-> rest.err,
                                data |-> <<r.row>> \o rest.data]

\* row := make([]byte, k); n, err := reader.Read(row): the n bytes read,
\* then the zeros make left
RowBuffer(f, r, k) == [b \in 1..k |-> IF b <= r.n THEN f[r.from + b] ELSE 0]

\* the pixel of column x (from 0) of a packed row: bit 7 - x%8 of byte x/8
UnpackBit(row, x) ==
    LET byteIndex == x \div 8
        bitIndex == 7 - (x % 8)
    IN  ((row[byteIndex + 1] \div (2 ^ bitIndex)) % 2) # 0

\* ShortReadP4 without the comparison
ShortReadP4Never(n, expectedBytesPerRow) == FALSE

\* whether ReadPBM accepts n bytes read for a row of expectedBytesPerRow
ShortReadP4(n, expectedBytesPerRow) == n < expectedBytesPerRow

RECURSIVE ReadP4Rows(_, _, _, _, _)
ReadP4Rows(f, rd, width, height, y) ==
    IF y >= height THEN [err |-> FALSE, data |-> <<>>]
    ELSE LET expectedBytesPerRow == (width + 7) \div 8
             r == BufioRead(f, rd, expectedBytesPerRow)
         IN  IF r.err \/ ShortReadP4(r.n, expectedBytesPerRow)
             THEN [err |-> TRUE, data |-> <<>>]
             ELSE LET buf == RowBuffer(f, r, expectedBytesPerRow)
                      row == [x \in 1..width |-> UnpackBit(buf, x - 1)]
                      rest == ReadP4Rows(f, r.rd, width, height, y + 1)
                  IN  [err |-> rest.err, data |-> <<row>> \o rest.data]

\* the magic numbers ReadPBM accepts
PBMMagic == {P1, P4}

ReadPBM(f) ==
    LET m == ReadString(f, NewReader)
        magicNumber == TrimSpace(m.line)
    IN  IF m.err \/ magicNumber \notin PBMMagic THEN Failed
        ELSE
        LET d == ReadString(f, m.rd)
            dim == ScanDimensions(TrimSpace(d.line))
        IN  IF d.err \/ ~dim.ok THEN Failed
            ELSE IF dim.width < 0 \/ dim.height < 0 THEN Panicked
            ELSE
            LET rows == IF magicNumber = P1
                        THEN ReadP1Rows(f, d.rd, dim.width, dim.height, 0)
                        ELSE ReadP4Rows(f, d.rd, dim.width, dim.height, 0)
            IN  IF rows.err THEN Failed
                ELSE Decoded([data |-> rows.data, width |-> dim.width,
                              height |-> dim.height,
                              magicNumber |-> magicNumber])

\* concatenation of a sequence of byte sequences
RECURSIVE Concat(_)
Concat(ss) == IF ss = <<>> THEN <<>> ELSE Head(ss) \o Concat(Tail(ss))

\* saveP1: "0"/"1", a space between the pixels of a row, a newline after it
saveP1Row(row, width) ==
    Concat([j \in 1..width |->
              <<(IF row[j] THEN 49 ELSE 48)>> \o (IF j < width THEN <<SP>> ELSE <<>>)])
    \o <<NL>>

saveP1(pbm) == Concat([i \in 1..pbm.height |-> saveP1Row(pbm.data[i], pbm.width)])

\* PackBit with the bits of a byte in the opposite order
PackBitLsbFirst(row, width, x) ==
    IF x < width /\ row[x + 1] THEN 2 ^ (x % 8) ELSE 0

\* bit 7 - x%8 of byte x/8 is set when the pixel of column x (from 0) is
PackBit(row, width, x) ==
    IF x < width /\ row[x + 1] THEN 2 ^ (7 - (x % 8)) ELSE 0

saveP4Row(row, width) ==
    [b \in 1..((width + 7) \div 8) |->
        PackBit(row, width, 8 * (b - 1))     + PackBit(row, width, 8 * (b - 1) + 1)
      + PackBit(row, width, 8 * (b - 1) + 2) + PackBit(row, width, 8 * (b - 1) + 3)
      + PackBit(row, width, 8 * (b - 1) + 4) + PackBit(row, width, 8 * (b - 1) + 5)
      + PackBit(row, width, 8 * (b - 1) + 6) + PackBit(row, width, 8 * (b - 1) + 7)]

saveP4(pbm) == Concat([y \in 1..pbm.height |-> saveP4Row(pbm.data[y], pbm.width)])

\* the "%s\n%d %d\n" header of PBM.Save
PBMHeader(pbm) ==
    pbm.magicNumber \o <<NL>> \o FormatInt(pbm.width) \o <<SP>>
        \o FormatInt(pbm.height) \o <<NL>>

\* PBM.Save: [err, bytes], bytes being what the file holds afterwards
PBMSave(pbm) ==
    IF pbm.magicNumber = P1 THEN [err |-> FALSE, bytes |-> PBMHeader(pbm) \o saveP1(pbm)]
    ELSE IF pbm.magicNumber = P4
         THEN [err |-> FALSE, bytes |-> PBMHeader(pbm) \o saveP4(pbm)]
         ELSE [err |-> TRUE, bytes |-> PBMHeader(pbm)]

---------------------------------------------------------------------------
(* PGM: src/unnamed/part_000 *)

\* one P2 row of ReadPGM: a field past the width or a field that is no
\* uint8 is an error, a missing field leaves the zero value
ReadP2Row(line, width) ==
    LET fields == Fields(line)
        scanned == [x \in 1..Len(fields) |-> ScanUint8(fields[x], 1)]
    IN  [err |-> Len(fields) > width
                 \/ \E x \in 1..Len(fields) : ~scanned[x].ok,
         row |-> [x \in 1..width |->
                    IF x <= Len(fields) THEN scanned[x].val ELSE 0]]

RECURSIVE ReadP2Rows(_, _, _, _, _)
ReadP2Rows(f, rd, width, height, y) ==
    IF y >= height THEN [err |-> FALSE, data |-> <<>>]
    ELSE LET l == ReadString(f, rd)
         IN  IF l.err THEN [err |-> TRUE, data |-> <<>>]
             ELSE LET r == ReadP2Row(l.line, width)
                  IN  IF r.err THEN [err |-> TRUE, data |-> <<>>]
                      ELSE LET rest == ReadP2Rows(f, l.rd, width, height, y + 1)
                           IN  [err |-> rest.err,
                                data |-> <<r.row>> \o rest.data]

\* whether ReadPGM accepts n bytes read for a row of width bytes
ShortReadP5(n, width) == n < width

RECURSIVE ReadP5Rows(_, _, _, _, _)
ReadP5Rows(f, rd, width, height, y) ==
    IF y >= height THEN [err |-> FALSE, data |-> <<>>]
    ELSE LET r == BufioRead(f, rd, width)
         IN  IF r.err \/ ShortReadP5(r.n, width)
             THEN [err |-> TRUE, data |-> <<>>]
             ELSE LET buf == RowBuffer(f, r, width)
                      row == [x \in 1..width |-> buf[x]]
                      rest == ReadP5Rows(f, r.rd, width, height, y + 1)
                  IN  [err |-> rest.err, data |-> <<row>> \o rest.data]

\* the magic numbers ReadPGM accepts
PGMMagic == {P2, P5}

ReadPGM(f) ==
    LET m == ReadString(f, NewReader)
        magicNumber == TrimSpace(m.line)
    IN  IF m.err \/ magicNumber \notin PGMMagic THEN Failed
        ELSE
        LET d == ReadString(f, m.rd)
            dim == ScanDimensions(TrimSpace(d.line))
        IN  IF d.err \/ ~dim.ok THEN Failed
            ELSE IF dim.width <= 0 \/ dim.height <= 0 THEN Failed
            ELSE
            LET v == ReadString(f, d.rd)
                max == ScanUint8(TrimSpace(v.line), 1)
            IN  IF v.err \/ ~max.ok THEN Failed
                ELSE
                LET rows == IF magicNumber = P2
                            THEN ReadP2Rows(f, v.rd, dim.width, dim.height, 0)
                            ELSE ReadP5Rows(f, v.rd, dim.width, dim.height, 0)
                IN  IF rows.err THEN Failed
                    ELSE Decoded([data |-> rows.data, width |-> dim.width,
                                  height |-> dim.height,
                                  magicNumber |-> magicNumber,
                                  max |-> max.val])

\* saveP2PGM: the samples in decimal, a space between the samples of a
\* row, a newline after it
saveP2PGMRow(row, width) ==
    Concat([x \in 1..width |->
              FormatInt(row[x]) \o (IF x < width THEN <<SP>> ELSE <<>>)])
    \o <<NL>>

saveP2PGM(pgm) ==
    Concat([y \in 1..pgm.height |-> saveP2PGMRow(pgm.data[y], pgm.width)])

\* saveP5PGM: one byte per sample
saveP5PGM(pgm) ==
    Concat([y \in 1..pgm.height |-> [x \in 1..pgm.width |-> pgm.data[y][x]]])

\* magic number, "%d %d", max value, each on its own line
PGMHeader(pgm) ==
    pgm.magicNumber \o <<NL>> \o FormatInt(pgm.width) \o <<SP>>
        \o FormatInt(pgm.height) \o <<NL>> \o FormatInt(pgm.max) \o <<NL>>

\* PGM.Save: [err, bytes].  The writer is flushed only on success.
PGMSave(pgm) ==
    IF \E y \in 1..Len(pgm.data) : Len(pgm.data[y]) # pgm.width
    THEN [err |-> TRUE, bytes |-> <<>>]
    ELSE IF pgm.magicNumber = P2
    THEN [err |-> FALSE, bytes |-> PGMHeader(pgm) \o saveP2PGM(pgm)]
    ELSE IF pgm.magicNumber = P5
    THEN [err |-> FALSE, bytes |-> PGMHeader(pgm) \o saveP5PGM(pgm)]
    ELSE [err |-> FALSE, bytes |-> PGMHeader(pgm)]

---------------------------------------------------------------------------
(* PPM: src/PBM.go *)

\* scanner.Scan(); scanner.Text(): the next line without its "\n" (and
\* without a "\r" before it), or "" once the file is exhausted.
\* [text, pos]: pos bytes of the file are consumed afterwards.
ScanLine(f, pos) ==
    IF pos >= Len(f) THEN [text |-> <<>>, pos |-> pos]
    ELSE LET nl == {i \in (pos + 1)..Len(f) : f[i] = NL}
             i == IF nl = {} THEN Len(f) + 1
                  ELSE CHOOSE k \in nl : \A j \in (pos + 1)..(k - 1) : f[j] # NL
             raw == SubSeq(f, pos + 1, i - 1)
         IN  [text |-> IF raw # <<>> /\ raw[Len(raw)] = 13
                       THEN SubSeq(raw, 1, Len(raw) - 1) ELSE raw,
              pos |-> Min(i, Len(f))]

\* Sscanf(text, "%d %d %d", &R, &G, &B) into a zero Pixel: the channels
\* scanned before the first failure are stored, the others stay 0
ScanPixel(text) ==
    LET r == ScanUint8(text, 1)
        g == IF r.ok THEN ScanUint8(text, r.next) ELSE r
        b == IF g.ok THEN ScanUint8(text, g.next) ELSE g
    IN  [R |-> IF r.ok THEN r.val ELSE 0,
         G |-> IF r.ok /\ g.ok THEN g.val ELSE 0,
         B |-> IF r.ok /\ g.ok /\ b.ok THEN b.val ELSE 0]

\* the pixel lines of ReadPPM, one Scan per pixel: [row, pos]
RECURSIVE ReadPPMRow(_, _, _, _)
ReadPPMRow(f, pos, width, j) ==
    IF j >= width THEN [row |-> <<>>, pos |-> pos]
    ELSE LET l == ScanLine(f, pos)
             rest == ReadPPMRow(f, l.pos, width, j + 1)
         IN  [row |-> <<ScanPixel(l.text)>> \o rest.row, pos |-> rest.pos]

RECURSIVE ReadPPMRows(_, _, _, _, _)
ReadPPMRows(f, pos, width, height, i) ==
    IF i >= height THEN <<>>
    ELSE LET r == ReadPPMRow(f, pos, width, 0)
         IN  <<r.row>> \o ReadPPMRows(f, r.pos, width, height, i + 1)

\* ReadPPM stores the first line as the magic number whatever it is and
\* ignores every scan error: a value that does not scan stays 0
ReadPPM(f) ==
    LET m == ScanLine(f, 0)
        d == ScanLine(f, m.pos)
        w == ScanInt(d.text, 1)
        h == IF w.ok THEN ScanInt(d.text, w.next) ELSE w
        width == IF w.ok THEN w.val ELSE 0
        height == IF w.ok /\ h.ok THEN h.val ELSE 0
        v == ScanLine(f, d.pos)
        max == ScanUint(v.text, 1)
    IN  IF height < 0 \/ (height > 0 /\ width < 0) THEN Panicked
        ELSE Decoded([data |-> ReadPPMRows(f, v.pos, width, height, 0),
                      width |-> width, height |-> height,
                      magicNumber |-> m.text,
                      max |-> IF max.ok THEN max.val ELSE 0])

\* PPMPixelLine with a space where the newline belongs
PPMPixelOnSameLine(p) ==
    FormatInt(p.R) \o <<SP>> \o FormatInt(p.G) \o <<SP>> \o FormatInt(p.B) \o <<SP>>

\* PPM.Save: the three header lines, then "%d %d %d\n" for every pixel
PPMPixelLine(p) ==
    FormatInt(p.R) \o <<SP>> \o FormatInt(p.G) \o <<SP>> \o FormatInt(p.B) \o <<NL>>

PPMHeader(ppm) ==
    ppm.magicNumber \o <<NL>> \o FormatInt(ppm.width) \o <<SP>>
        \o FormatInt(ppm.height) \o <<NL>> \o FormatInt(ppm.max) \o <<NL>>

PPMSave(ppm) ==
    [err |-> FALSE,
     bytes |-> PPMHeader(ppm)
               \o Concat([i \in 1..ppm.height |->
                            Concat([j \in 1..ppm.width |->
                                      PPMPixelLine(ppm.data[i][j])])])]

---------------------------------------------------------------------------
(* In-memory operations.  Rows and columns count from 1 here, from 0 in    *)
(* the code: data[i][j] of the code is data[i + 1][j + 1].                 *)

\* how a method call ends: it returns val, or it panics (index out of
\* range).  No method of the images in memory returns an error.
Returned(v) == [panic |-> FALSE, err |-> FALSE, val |-> v]

NoReturn == Returned(<<>>)

Panic == [panic |-> TRUE, err |-> FALSE, val |-> <<>>]

\* data[y][x] is inside the slices: no index-out-of-range panic
Indexable(i, x, y) ==
    /\ y >= 0
    /\ y < Len(i.data)
    /\ x >= 0
    /\ x < Len(i.data[y + 1])

\* SubUint8 stopping at 0 instead of wrapping
SubUint8Saturating(a, b) == IF a < b THEN 0 ELSE a - b

\* a - b in uint8
SubUint8(a, b) == (a - b) % 256

\* SwapEnds with the assignment s[j] = s[n-j-1] in place of the exchange
SwapEndsCopy(s, n) ==
    [j \in 1..Len(s) |-> IF j <= n \div 2 THEN s[n + 1 - j] ELSE s[j]]

\* the swap loop "for j < n/2: s[j], s[n-j-1] = s[n-j-1], s[j]" over the
\* first n elements of s
SwapEnds(s, n) ==
    [j \in 1..Len(s) |->
        IF j <= n \div 2 \/ (j > n - (n \div 2) /\ j <= n) THEN s[n + 1 - j] ELSE s[j]]

(* PBM: src/PBM.go *)

PBMInvert(pbm) ==
    [pbm EXCEPT !.data =
        [i \in 1..Len(pbm.data) |-> [j \in 1..Len(pbm.data[i]) |->
            IF i <= pbm.height /\ j <= pbm.width
            THEN ~pbm.data[i][j] ELSE pbm.data[i][j]]]]

PBMFlip(pbm) ==
    [pbm EXCEPT !.data =
        [i \in 1..Len(pbm.data) |->
            IF i <= pbm.height THEN SwapEnds(pbm.data[i], pbm.width)
            ELSE pbm.data[i]]]

PBMFlop(pbm) == [pbm EXCEPT !.data = SwapEnds(pbm.data, pbm.height)]

PBMSetMagicNumber(pbm, magicNumber) == [pbm EXCEPT !.magicNumber = magicNumber]

\* return pbm.data[y][x]
PBMAt(pbm, x, y) ==
    IF Indexable(pbm, x, y) THEN Returned(pbm.data[y + 1][x + 1]) ELSE Panic

\* pbm.data[y][x] = value: the image after the call (as it was, when the
\* index panics) and how the call ends
PBMSet(pbm, x, y, value) ==
    IF Indexable(pbm, x, y) THEN [pbm EXCEPT !.data[y + 1][x + 1] = value]
    ELSE pbm

PBMSetEnds(pbm, x, y) == IF Indexable(pbm, x, y) THEN NoReturn ELSE Panic

(* PGM: src/unnamed/part_000 *)

PGMInvert(pgm) ==
    [pgm EXCEPT !.data =
        [i \in 1..Len(pgm.data) |-> [j \in 1..Len(pgm.data[i]) |->
            SubUint8(pgm.max % 256, pgm.data[i][j])]]]

PGMFlip(pgm) ==
    [pgm EXCEPT !.data =
        [i \in 1..Len(pgm.data) |-> SwapEnds(pgm.data[i], Len(pgm.data[i]))]]

PGMFlop(pgm) == [pgm EXCEPT !.data = SwapEnds(pgm.data, pgm.height)]

PGMSetMagicNumber(pgm, magicNumber) == [pgm EXCEPT !.magicNumber = magicNumber]

\* uint8(float64(sample) * float64(maxValue) / float64(max)).  The product
\* is exact and the quotient is truncated.  A quotient above 255 keeps its
\* low 8 bits.  With max = 0 the quotient is NaN (0/0), converted to 0, or
\* +Inf, whose conversion depends on the build: 0 or 255 (inf).
ScaleSample(sample, maxValue, max, inf) ==
    IF max = 0 THEN (IF sample * maxValue = 0 THEN 0 ELSE inf)
    ELSE ((sample * maxValue) \div max) % 256

PGMSetMaxValue(pgm, maxValue, inf) ==
    [pgm EXCEPT
        !.data = [y \in 1..Len(pgm.data) |-> [x \in 1..Len(pgm.data[y]) |->
                    IF y <= pgm.height /\ x <= pgm.width
                    THEN ScaleSample(pgm.data[y][x], maxValue, pgm.max, inf)
                    ELSE pgm.data[y][x]]],
        !.max = maxValue]

\* PGMRotate90CW turning the other way: newData[i][j] = data[j][width-i-1]
PGMRotate90CCW(pgm) ==
    IF pgm.width <= 0 \/ pgm.height <= 0 THEN pgm
    ELSE [pgm EXCEPT
            !.data = [i \in 1..pgm.width |-> [j \in 1..pgm.height |->
                        pgm.data[j][pgm.width - i + 1]]],
            !.width = pgm.height,
            !.height = pgm.width]

PGMRotate90CW(pgm) ==
    IF pgm.width <= 0 \/ pgm.height <= 0 THEN pgm
    ELSE [pgm EXCEPT
            !.data = [i \in 1..pgm.width |-> [j \in 1..pgm.height |->
                        pgm.data[pgm.height - j + 1][i]]],
            !.width = pgm.height,
            !.height = pgm.width]

\* PGM.At and PGM.Set test the address against width and height
PGMAt(pgm, x, y) ==
    IF x >= 0 /\ x < pgm.width /\ y >= 0 /\ y < pgm.height
    THEN Returned(pgm.data[y + 1][x + 1])
    ELSE Returned(0)

PGMSet(pgm, x, y, value) ==
    IF x >= 0 /\ x < pgm.width /\ y >= 0 /\ y < pgm.height
    THEN [pgm EXCEPT !.data[y + 1][x + 1] = value]
    ELSE pgm

\* pbm.data[y][x] = pgm.data[y][x] < uint8(pgm.max/2), magic number "P1"
PGMToPBM(pgm) ==
    [data |-> [y \in 1..pgm.height |-> [x \in 1..pgm.width |->
                   pgm.data[y][x] < ((pgm.max \div 2) % 256)]],
     width |-> pgm.width,
     height |-> pgm.height,
     magicNumber |-> P1]

(* PPM: src/PBM.go *)

PPMInvertPixel(p, max) ==
    [R |-> SubUint8(max % 256, p.R),
     G |-> SubUint8(max % 256, p.G),
     B |-> SubUint8(max % 256, p.B)]

PPMInvert(ppm) ==
    [ppm EXCEPT !.data =
        [i \in 1..Len(ppm.data) |-> [j \in 1..Len(ppm.data[i]) |->
            IF i <= ppm.height /\ j <= ppm.width
            THEN PPMInvertPixel(ppm.data[i][j], ppm.max) ELSE ppm.data[i][j]]]]

PPMFlip(ppm) ==
    [ppm EXCEPT !.data =
        [i \in 1..Len(ppm.data) |->
            IF i <= ppm.height THEN SwapEnds(ppm.data[i], ppm.width)
            ELSE ppm.data[i]]]

PPMFlop(ppm) == [ppm EXCEPT !.data = SwapEnds(ppm.data, ppm.height)]

PPMSetMagicNumber(ppm, magicNumber) == [ppm EXCEPT !.magicNumber = magicNumber]

\* PPM.SetMaxValue stores the new max value and leaves the samples alone
PPMSetMaxValue(ppm, maxValue) == [ppm EXCEPT !.max = maxValue]

\* PPMRotate90CW without the exchange of width and height
PPMRotate90CWKeepsSize(ppm) ==
    [ppm EXCEPT
        !.data = [j \in 1..ppm.width |-> [c \in 1..ppm.height |->
                    ppm.data[ppm.height - c + 1][j]]]]

\* newData[j][height-1-i] = data[i][j]
PPMRotate90CW(ppm) ==
    [ppm EXCEPT
        !.data = [j \in 1..ppm.width |-> [c \in 1..ppm.height |->
                    ppm.data[ppm.height - c + 1][j]]],
        !.width = ppm.height,
        !.height = ppm.width]

\* return ppm.data[y][x]
PPMAt(ppm, x, y) ==
    IF Indexable(ppm, x, y) THEN Returned(ppm.data[y + 1][x + 1]) ELSE Panic

\* ppm.data[y][x] = value: the image after the call (as it was, when the
\* index panics) and how the call ends
PPMSet(ppm, x, y, value) ==
    IF Indexable(ppm, x, y) THEN [ppm EXCEPT !.data[y + 1][x + 1] = value]
    ELSE ppm

PPMSetEnds(ppm, x, y) == IF Indexable(ppm, x, y) THEN NoReturn ELSE Panic

\* 1000 times the real value of 0.299*R + 0.587*G + 0.114*B
LumaMilli(p) == 299 * p.R + 587 * p.G + 114 * p.B

\* The float64 sum 0.299*R + 0.587*G + 0.114*B is the real value up to a
\* rounding error below 1e-13 (the weights are no binary fractions): it can
\* lie just below (off = -1), on (0) or just above (1) the real value, by
\* the operands and by the build's fusing of multiply and add.  0 is exact.
RoundingOff == {-1, 0, 1}

\* uint8(0.299*R + 0.587*G + 0.114*B): the sum truncated
ToPGMGray(p, off) ==
    IF LumaMilli(p) > 0 /\ LumaMilli(p) % 1000 = 0 /\ off < 0
    THEN (LumaMilli(p) \div 1000) - 1
    ELSE LumaMilli(p) \div 1000

PPMToPGM(ppm, off) ==
    [data |-> [i \in 1..ppm.height |-> [j \in 1..ppm.width |->
                   ToPGMGray(ppm.data[i][j], off)]],
     width |-> ppm.width,
     height |-> ppm.height,
     magicNumber |-> P2,
     max |-> ppm.max]

\* gray > float64(ppm.max)/2
PPMBright(p, max, off) ==
    IF LumaMilli(p) > 0 /\ 2 * LumaMilli(p) = 1000 * max THEN off > 0
    ELSE 2 * LumaMilli(p) > 1000 * max

PPMToPBM(ppm, off) ==
    [data |-> [i \in 1..ppm.height |-> [j \in 1..ppm.width |->
                   PPMBright(ppm.data[i][j], ppm.max, off)]],
     width |-> ppm.width,
     height |-> ppm.height,
     magicNumber |-> P1]

---------------------------------------------------------------------------
(* float64 in the line stepping of DrawLine and in the scanlines of the   *)
(* filled shapes.  A value is [nan, inf, neg, m]: m = <<n, a, b, c>> is    *)
(* the magnitude n + a/2^20 + b/2^40 + c/2^60 with a, b, c < 2^20.  Every  *)
(* float64 between 2^-8 and 32 is such a number, and so are the sums and   *)
(* differences of two of them and their products with small integers,      *)
(* which covers quotients d/steps with steps <= 256 added to coordinates   *)
(* below 32.  Each result is rounded to 53 significant bits, ties to even  *)
(* (IEEE 754).  A product and the sum it is an operand of are rounded one  *)
(* after the other; a build that fuses them rounds once, and for           *)
(* coordinates below 5 both give the same integer part.                    *)

Limb == 1048576

Abs(k) == IF k < 0 THEN -k ELSE k

Max(a, b) == IF a > b THEN a ELSE b

NaN == [nan |-> TRUE, inf |-> FALSE, neg |-> FALSE, m |-> <<0, 0, 0, 0>>]

\* +Inf, or -Inf when neg
Inf(neg) == [nan |-> FALSE, inf |-> TRUE, neg |-> neg, m |-> <<0, 0, 0, 0>>]

\* the number of magnitude m, negative when neg
Finite(neg, m) == [nan |-> FALSE, inf |-> FALSE, neg |-> neg, m |-> m]

\* float64(k)
F64FromInt(k) == Finite(k < 0, <<Abs(k), 0, 0, 0>>)

\* carries and borrows between the limbs
Carry(m) ==
    LET b1 == m[3] + (m[4] \div Limb)
        a1 == m[2] + (b1 \div Limb)
    IN  <<m[1] + (a1 \div Limb), a1 % Limb, b1 % Limb, m[4] % Limb>>

RECURSIVE TopPow2(_)
\* the largest power of two that is at most k (k > 0)
TopPow2(k) == IF k < 2 THEN 1 ELSE 2 * TopPow2(k \div 2)

\* the unit in the last place of the 53-bit significand of m, in 2^-60
Ulp(m) ==
    IF m[1] >= 1 THEN 256 * TopPow2(m[1])
    ELSE IF m[2] >= 4096 THEN TopPow2(m[2]) \div 4096
    ELSE 1

\* m, of which sticky tells that bits below 2^-60 were cut, rounded to 53
\* significant bits: to nearest, ties to even
RoundEven(m, sticky) ==
    LET u == Ulp(m)
        low == m[4] % u
        kept == m[4] - low
        up == \/ 2 * low > u
              \/ 2 * low = u /\ (sticky \/ (kept \div u) % 2 = 1)
    IN  IF u = 1 THEN m
        ELSE Carry(<<m[1], m[2], m[3], kept + (IF up THEN u ELSE 0)>>)

\* float64(d) / float64(steps), steps > 0: long division, then rounding
F64Div(d, steps) ==
    LET r0 == Abs(d) % steps
        r1 == (r0 * Limb) % steps
        r2 == (r1 * Limb) % steps
        r3 == (r2 * Limb) % steps
        q == <<Abs(d) \div steps, (r0 * Limb) \div steps,
               (r1 * Limb) \div steps, (r2 * Limb) \div steps>>
    IN  Finite(d < 0, RoundEven(q, r3 # 0))

\* dx / float64(steps): 0/0 is NaN (steps is 0 only when dx and dy are)
Increment(d, steps) == IF steps = 0 THEN NaN ELSE F64Div(d, steps)

MagLess(m1, m2) ==
    \E k \in 1..4 : m1[k] < m2[k] /\ \A j \in 1..(k - 1) : m1[j] = m2[j]

\* x + y: the exact sum, rounded
F64Add(x, y) ==
    IF x.nan \/ y.nan THEN NaN
    ELSE IF x.inf /\ y.inf THEN (IF x.neg = y.neg THEN x ELSE NaN)
    ELSE IF x.inf THEN x
    ELSE IF y.inf THEN y
    ELSE IF x.neg = y.neg
    THEN Finite(x.neg, RoundEven(Carry([k \in 1..4 |-> x.m[k] + y.m[k]]), FALSE))
    ELSE IF x.m = y.m THEN F64FromInt(0)
    ELSE IF MagLess(x.m, y.m)
    THEN Finite(y.neg, RoundEven(Carry([k \in 1..4 |-> y.m[k] - x.m[k]]), FALSE))
    ELSE Finite(x.neg, RoundEven(Carry([k \in 1..4 |-> x.m[k] - y.m[k]]), FALSE))

\* x * float64(k): the exact product, rounded; Inf * 0 is NaN
F64MulInt(x, k) ==
    IF x.nan THEN NaN
    ELSE IF x.inf THEN (IF k = 0 THEN NaN ELSE Inf(x.neg # (k < 0)))
    ELSE Finite(x.neg # (k < 0),
                RoundEven(Carry([j \in 1..4 |-> x.m[j] * Abs(k)]), FALSE))

\* float64(d) / float64(n): d/0 is +Inf or -Inf, 0/0 is NaN
F64Quo(d, n) ==
    IF n = 0 THEN (IF d = 0 THEN NaN ELSE Inf(d < 0))
    ELSE IF n < 0 THEN F64Div(-d, -n)
    ELSE F64Div(d, n)

\* int(x) of a number: the fraction is dropped
F64ToInt(x) == IF x.neg THEN -x.m[1] ELSE x.m[1]

\* the model's stand-ins for -2^63 and 2^63 - 1: like them, they are below
\* and above every column and row of an image
MinInt64 == -1073741824
MaxInt64 == 1073741823

\* the builds whose conversion of NaN and of the infinities is modelled
Builds == {"amd64", "arm64"}

\* int(x) where x may be NaN or infinite: the language leaves the result
\* to the implementation.  amd64 (CVTTSD2SQ) gives -2^63 for all three;
\* arm64 (FCVTZS) gives 0 for NaN and the nearest end of int64 for the
\* infinities
F64ToIntOn(x, build) ==
    IF x.nan THEN (IF build = "amd64" THEN MinInt64 ELSE 0)
    ELSE IF x.inf
    THEN (IF build = "amd64" \/ x.neg THEN MinInt64 ELSE MaxInt64)
    ELSE F64ToInt(x)

RECURSIVE Stepped(_, _, _, _)
\* int(x), int(y) in each of n passes of "Set(int(x), int(y)); x +=
\* xIncrement; y += yIncrement", from the values x and y
Stepped(x, y, inc, n) ==
    IF n = 0 THEN <<>>
    ELSE <<<<F64ToInt(x), F64ToInt(y)>>>>
         \o Stepped(F64Add(x, inc[1]), F64Add(y, inc[2]), inc, n - 1)

---------------------------------------------------------------------------
(* Drawing on a PPM image: src/PBM.go.  A drawing in progress is [img,     *)
(* panic]; after a panic nothing more is drawn.                            *)

Point(x, y) == [X |-> x, Y |-> y]

Drawing(ppm) == [img |-> ppm, panic |-> FALSE]

RECURSIVE SetEach(_, _, _, _)
\* ppm.Set(x, y, color) for the addresses k.. of the sequence addrs in turn
SetEach(st, addrs, color, k) ==
    IF st.panic \/ k > Len(addrs) THEN st
    ELSE IF Indexable(st.img, addrs[k][1], addrs[k][2])
    THEN SetEach(Drawing(PPMSet(st.img, addrs[k][1], addrs[k][2], color)),
                 addrs, color, k + 1)
    ELSE [img |-> st.img, panic |-> TRUE]

\* the passes of "for i := 0; i < steps; i++"
LineLoopExclusive(steps) == steps

\* the passes of "for i := 0; i <= steps; i++"
LineLoop(steps) == steps + 1

\* the addresses (int(x), int(y)) DrawLine sets, in order
LineAddresses(p1, p2) ==
    LET dx == p2.X - p1.X
        dy == p2.Y - p1.Y
        steps == Max(Abs(dx), Abs(dy))
        xIncrement == Increment(dx, steps)
        yIncrement == Increment(dy, steps)
    IN  Stepped(F64FromInt(p1.X), F64FromInt(p1.Y),
                <<xIncrement, yIncrement>>, LineLoop(steps))

\* The first pass sets p1 itself (int(float64(k)) is k); when that
\* already panics, the addresses of the later passes are never computed.
DrawLine(st, p1, p2, color) ==
    IF st.panic THEN st
    ELSE IF ~Indexable(st.img, p1.X, p1.Y) THEN [img |-> st.img, panic |-> TRUE]
    ELSE SetEach(st, LineAddresses(p1, p2), color, 1)

DrawRectangle(st, p1, width, height, color) ==
    LET p2 == Point(p1.X + width, p1.Y)
        p3 == Point(p1.X, p1.Y + height)
        p4 == Point(p1.X + width, p1.Y + height)
    IN  DrawLine(DrawLine(DrawLine(DrawLine(st, p1, p2, color),
                                   p2, p4, color), p4, p3, color), p3, p1, color)

\* for i := p1.Y .. p1.Y+height-1, for j := p1.X .. p1.X+width-1: Set(j, i)
DrawFilledRectangle(st, p1, width, height, color) ==
    IF width <= 0 \/ height <= 0 THEN st
    ELSE SetEach(st, [k \in 1..(width * height) |->
                         <<p1.X + ((k - 1) % width), p1.Y + ((k - 1) \div width)>>],
                 color, 1)

\* the offsets (a, b), a and b in -radius..radius with a*a + b*b <=
\* radius*radius, a in the outer loop
DiscOffsets(radius) ==
    IF radius < 0 THEN <<>>
    ELSE SelectSeq([k \in 1..((2 * radius + 1) * (2 * radius + 1)) |->
                       <<((k - 1) \div (2 * radius + 1)) - radius,
                         ((k - 1) % (2 * radius + 1)) - radius>>],
                   LAMBDA o : o[1] * o[1] + o[2] * o[2] <= radius * radius)

\* DrawCircle tests x*x + y*y <= radius*radius: it sets the whole disc
DrawCircle(st, center, radius, color) ==
    SetEach(st, [k \in 1..Len(DiscOffsets(radius)) |->
                    <<center.X + DiscOffsets(radius)[k][1],
                      center.Y + DiscOffsets(radius)[k][2]>>], color, 1)

DrawFilledCircle(st, center, radius, color) ==
    SetEach(st, [k \in 1..Len(DiscOffsets(radius)) |->
                    <<center.X + DiscOffsets(radius)[k][1],
                      center.Y + DiscOffsets(radius)[k][2]>>], color, 1)

DrawTriangle(st, p1, p2, p3, color) ==
    DrawLine(DrawLine(DrawLine(st, p1, p2, color), p2, p3, color), p3, p1, color)

\* if points[i].Y > points[j].Y { points[i], points[j] = points[j], points[i] }
SwapByY(points, i, j) ==
    IF points[i].Y > points[j].Y
    THEN [points EXCEPT ![i] = points[j], ![j] = points[i]]
    ELSE points

\* the passes (i, j) = (0, 1), (0, 2), (1, 2) of the sort by Y
SortByY(p1, p2, p3) ==
    SwapByY(SwapByY(SwapByY(<<p1, p2, p3>>, 1, 2), 1, 3), 2, 3)

\* float64(b.X-a.X) / float64(b.Y-a.Y): no test for b.Y = a.Y
Slope(a, b) == F64Quo(b.X - a.X, b.Y - a.Y)

\* int(float64(a.X) + slope*float64(y-a.Y))
ScanX(a, slope, y, build) ==
    F64ToIntOn(F64Add(F64FromInt(a.X), F64MulInt(slope, y - a.Y)), build)

RECURSIVE UpperPart(_, _, _, _, _)
\* for y := points[0].Y; y <= points[1].Y; y++, from the row y on
UpperPart(st, points, y, color, build) ==
    IF y > points[2].Y THEN st
    ELSE LET x1 == ScanX(points[1], Slope(points[1], points[2]), y, build)
             x2 == ScanX(points[1], Slope(points[1], points[3]), y, build)
         IN  UpperPart(DrawLine(st, Point(x1, y), Point(x2, y), color),
                       points, y + 1, color, build)

RECURSIVE LowerPart(_, _, _, _, _)
\* for y := points[1].Y + 1; y <= points[2].Y; y++, from the row y on
LowerPart(st, points, y, color, build) ==
    IF y > points[3].Y THEN st
    ELSE LET x1 == ScanX(points[2], Slope(points[2], points[3]), y, build)
             x2 == ScanX(points[1], Slope(points[1], points[3]), y, build)
         IN  LowerPart(DrawLine(st, Point(x1, y), Point(x2, y), color),
                       points, y + 1, color, build)

DrawFilledTriangle(st, p1, p2, p3, color, build) ==
    LET points == SortByY(p1, p2, p3)
    IN  LowerPart(UpperPart(st, points, points[1].Y, color, build),
                  points, points[2].Y + 1, color, build)

RECURSIVE DrawPolygonFrom(_, _, _, _)
\* the lines from points[i] to points[i+1], then the line from the last
\* point back to the first (k is i + 1)
DrawPolygonFrom(st, points, k, color) ==
    IF k >= Len(points) THEN DrawLine(st, points[Len(points)], points[1], color)
    ELSE DrawPolygonFrom(DrawLine(st, points[k], points[k + 1], color),
                         points, k + 1, color)

DrawPolygon(st, points, color) == DrawPolygonFrom(st, points, 1, color)

RECURSIVE MinYFrom(_, _)
\* the least Y of the points k..
MinYFrom(points, k) ==
    IF k >= Len(points) THEN points[k].Y
    ELSE LET m == MinYFrom(points, k + 1)
         IN  IF points[k].Y < m THEN points[k].Y ELSE m

RECURSIVE MaxYFrom(_, _)
\* the greatest Y of the points k..
MaxYFrom(points, k) ==
    IF k >= Len(points) THEN points[k].Y
    ELSE Max(points[k].Y, MaxYFrom(points, k + 1))

\* (y1 <= y && y < y2) || (y2 <= y && y < y1)
Crosses(y, y1, y2) == (y1 <= y /\ y < y2) \/ (y2 <= y /\ y < y1)

\* xi of the edge from a to b on the scanline y, which crosses it
Intersection(a, b, y) ==
    F64ToInt(F64Add(F64FromInt(a.X),
                    F64MulInt(F64Quo(y - a.Y, b.Y - a.Y), b.X - a.X)))

RECURSIVE FillEdges(_, _, _, _, _, _)
\* "for i := 0; i < len(points); i++" on the scanline y, from the edge
\* that starts at points[k] on, with the count of intersections so far
FillEdges(st, points, y, k, intersections, color) ==
    IF st.panic \/ k > Len(points) THEN st
    ELSE LET a == points[k]
             b == points[(k % Len(points)) + 1]
             n == IF Crosses(y, a.Y, b.Y) /\ Intersection(a, b, y) < a.X
                  THEN intersections + 1
                  ELSE intersections
         IN  FillEdges(IF n % 2 # 0 THEN SetEach(st, <<<<a.X, y>>>>, color, 1)
                       ELSE st,
                       points, y, k + 1, n, color)

RECURSIVE FillRows(_, _, _, _, _)
\* for y := minY; y <= maxY; y++, from the row y on
FillRows(st, points, y, maxY, color) ==
    IF st.panic \/ y > maxY THEN st
    ELSE FillRows(FillEdges(st, points, y, 1, 0, color),
                  points, y + 1, maxY, color)

DrawFilledPolygon(st, points, color) ==
    FillRows(st, points, MinYFrom(points, 1), MaxYFrom(points, 1), color)

---------------------------------------------------------------------------
(* The images the model starts from *)

MaxW == 3
MaxH == 2
MaxSeed == 2
MaxOps == 2
MaxCut == 2

Kinds == {"PBM", "PGM", "PPM"}

\* sample values of one, two and three digits, below and above InitMax
Palette == <<0, 3, 200, 255, 17>>

InitMax == {100, 255}

PaletteAt(k) == Palette[(k % Len(Palette)) + 1]

\* the raster of seed s: no two neighbours alike, no symmetry
GraySample(s, x, y) == PaletteAt(s + x + 2 * y)

GrayData(s, w, h) == [y \in 1..h |-> [x \in 1..w |-> GraySample(s, x, y)]]

BitData(s, w, h) == [y \in 1..h |-> [x \in 1..w |-> (s + x + 2 * y) % 3 = 0]]

PixelData(s, w, h) ==
    [y \in 1..h |-> [x \in 1..w |->
        [R |-> GraySample(s, x, y), G |-> GraySample(s + 1, x, y),
         B |-> GraySample(s + 3, x, y)]]]

MagicOf(k) ==
    CASE k = "PBM" -> {P1, P4}
      [] k = "PGM" -> {P2, P5}
      [] k = "PPM" -> {P3}

NewPBM(d, w, h, m) == [data |-> d, width |-> w, height |-> h, magicNumber |-> m]

NewPGM(d, w, h, m, max) ==
    [data |-> d, width |-> w, height |-> h, magicNumber |-> m, max |-> max]

SeedImages(k) ==
    CASE k = "PBM" ->
           {NewPBM(BitData(s, w, h), w, h, m) :
               s \in 0..MaxSeed, w \in 1..MaxW, h \in 1..MaxH, m \in MagicOf(k)}
      [] k = "PGM" ->
           {NewPGM(GrayData(s, w, h), w, h, m, max) :
               s \in 0..MaxSeed, w \in 1..MaxW, h \in 1..MaxH, m \in MagicOf(k),
               max \in InitMax}
      [] k = "PPM" ->
           {NewPGM(PixelData(s, w, h), w, h, m, max) :
               s \in 0..MaxSeed, w \in 1..MaxW, h \in 1..MaxH, m \in MagicOf(k),
               max \in InitMax}

NoOutput == [err |-> FALSE, panic |-> FALSE, img |-> NoImage]

---------------------------------------------------------------------------
(* Spec: the in-memory operations applied to an image, MaxOps in a row *)

Init ==
    /\ kind \in Kinds
    /\ img \in SeedImages(kind)
    /\ op1 = "none"
    /\ arg1 = <<>>
    /\ ret1 = NoReturn
    /\ prev1 = img
    /\ nops = 0
    /\ pc = "mem"
    /\ file = <<>>
    /\ file0 = <<>>
    /\ mut = "none"
    /\ out = NoOutput

\* a method call with arguments args that leaves the image next and ends as
\* ret.  A panic ends the program.  The behaviour also ends with a call that
\* returns a value (At, ToPGM, ToPBM): such a call leaves the image as it
\* was, and what may follow it is what may follow without it.
Call(name, args, next, ret) ==
    /\ pc = "mem"
    /\ nops < MaxOps
    /\ img' = next
    /\ op1' = name
    /\ arg1' = args
    /\ ret1' = ret
    /\ prev1' = img
    /\ nops' = nops + 1
    /\ pc' = IF ret.panic THEN "aborted"
             ELSE IF name \in {"At", "ToPGM", "ToPBM"} THEN "returned" ELSE pc
    /\ UNCHANGED <<kind, file, file0, mut, out>>

\* a call without arguments that returns nothing
Apply(name, next) == Call(name, <<>>, next, NoReturn)

Invert ==
    Apply("Invert", CASE kind = "PBM" -> PBMInvert(img)
                      [] kind = "PGM" -> PGMInvert(img)
                      [] kind = "PPM" -> PPMInvert(img))

Flip ==
    Apply("Flip", CASE kind = "PBM" -> PBMFlip(img)
                    [] kind = "PGM" -> PGMFlip(img)
                    [] kind = "PPM" -> PPMFlip(img))

Flop ==
    Apply("Flop", CASE kind = "PBM" -> PBMFlop(img)
                    [] kind = "PGM" -> PGMFlop(img)
                    [] kind = "PPM" -> PPMFlop(img))

\* PBM has no Rotate90CW
Rotate90CW ==
    /\ kind \in {"PGM", "PPM"}
    /\ Apply("Rotate90CW", IF kind = "PGM" THEN PGMRotate90CW(img)
                           ELSE PPMRotate90CW(img))

\* the magic numbers a caller sets: the two of the family (PPM: P3, P6)
SetMagicOf(k) == IF k = "PPM" THEN {P3, P6} ELSE MagicOf(k)

SetMagicNumber ==
    \E m \in SetMagicOf(kind) :
        Call("SetMagicNumber", <<m>>,
             CASE kind = "PBM" -> PBMSetMagicNumber(img, m)
               [] kind = "PGM" -> PGMSetMagicNumber(img, m)
               [] kind = "PPM" -> PPMSetMagicNumber(img, m), NoReturn)

NewMaxValues == {0, 1, 100, 255}

\* PBM has no SetMaxValue
SetMaxValue ==
    /\ kind \in {"PGM", "PPM"}
    /\ \E maxValue \in NewMaxValues, inf \in {0, 255} :
          Call("SetMaxValue", <<maxValue>>,
               IF kind = "PGM" THEN PGMSetMaxValue(img, maxValue, inf)
               ELSE PPMSetMaxValue(img, maxValue), NoReturn)

SetValues(k) ==
    CASE k = "PBM" -> {TRUE, FALSE}
      [] k = "PGM" -> {0, 255}
      [] k = "PPM" -> {[R |-> 255, G |-> 0, B |-> 0]}

\* Set at an address inside the image
SetInBounds ==
    \E x \in 0..(img.width - 1), y \in 0..(img.height - 1), v \in SetValues(kind) :
        Call("Set", <<x, y, v>>, CASE kind = "PBM" -> PBMSet(img, x, y, v)
                                   [] kind = "PGM" -> PGMSet(img, x, y, v)
                                   [] kind = "PPM" -> PPMSet(img, x, y, v), NoReturn)

Next ==
    \/ Invert
    \/ Flip
    \/ Flop
    \/ Rotate90CW
    \/ SetMagicNumber
    \/ SetMaxValue
    \/ SetInBounds

Spec == Init /\ [][Next]_vars

---------------------------------------------------------------------------
(* AccessSpec: the calls that read an image, convert it, or address it     *)
(* outside its raster                                                      *)

\* addresses from one before the first to one after the last column / row
Addresses(i) == {<<x, y>> : x \in -1..i.width, y \in -1..i.height}

At ==
    \E a \in Addresses(img) :
        Call("At", a, img, CASE kind = "PBM" -> PBMAt(img, a[1], a[2])
                             [] kind = "PGM" -> PGMAt(img, a[1], a[2])
                             [] kind = "PPM" -> PPMAt(img, a[1], a[2]))

\* Set at an address outside the image
SetOutOfRange ==
    \E a \in Addresses(img), v \in SetValues(kind) :
        /\ ~(a[1] \in 0..(img.width - 1) /\ a[2] \in 0..(img.height - 1))
        /\ Call("Set", <<a[1], a[2], v>>,
                CASE kind = "PBM" -> PBMSet(img, a[1], a[2], v)
                  [] kind = "PGM" -> PGMSet(img, a[1], a[2], v)
                  [] kind = "PPM" -> PPMSet(img, a[1], a[2], v),
                CASE kind = "PBM" -> PBMSetEnds(img, a[1], a[2])
                  [] kind = "PGM" -> NoReturn
                  [] kind = "PPM" -> PPMSetEnds(img, a[1], a[2]))

\* PPM to PGM; the source image stays as it is
ToPGM ==
    /\ kind = "PPM"
    /\ \E off \in RoundingOff :
          Call("ToPGM", <<>>, img, Returned(PPMToPGM(img, off)))

\* PGM or PPM to PBM; the source image stays as it is
ToPBM ==
    /\ kind \in {"PGM", "PPM"}
    /\ \E off \in RoundingOff :
          Call("ToPBM", <<>>, img,
               Returned(IF kind = "PGM" THEN PGMToPBM(img) ELSE PPMToPBM(img, off)))

AccessNext ==
    \/ At
    \/ SetOutOfRange
    \/ ToPGM
    \/ ToPBM

AccessSpec == Init /\ [][AccessNext]_vars

---------------------------------------------------------------------------
(* DrawSpec: one drawing call on a PPM canvas *)

MaxCanvas == 4

MaxRadius == 2

\* canvases of 2 or MaxCanvas columns and 1 or MaxCanvas rows, no pixel of
\* which has the drawing colour
Canvases ==
    {NewPGM(PixelData(0, w, h), w, h, P3, 255) :
        w \in {2, MaxCanvas}, h \in {1, MaxCanvas}}

Red == [R |-> 255, G |-> 0, B |-> 0]

\* points from one before the first to one after the last column / row of
\* the largest canvas
DrawPoints == {Point(x, y) : x \in -1..MaxCanvas, y \in -1..MaxCanvas}

\* the points inside the image i
PointsIn(i) == {Point(x, y) : x \in 0..(i.width - 1), y \in 0..(i.height - 1)}

DrawInit ==
    /\ kind = "PPM"
    /\ img \in Canvases
    /\ op1 = "none"
    /\ arg1 = <<>>
    /\ ret1 = NoReturn
    /\ prev1 = img
    /\ nops = 0
    /\ pc = "mem"
    /\ file = <<>>
    /\ file0 = <<>>
    /\ mut = "none"
    /\ out = NoOutput

\* a drawing call with arguments args that ends as the drawing st
Draw(name, args, st) ==
    /\ pc = "mem"
    /\ img' = st.img
    /\ op1' = name
    /\ arg1' = args
    /\ ret1' = IF st.panic THEN Panic ELSE NoReturn
    /\ prev1' = img
    /\ nops' = nops + 1
    /\ pc' = IF st.panic THEN "aborted" ELSE "drawn"
    /\ UNCHANGED <<kind, file, file0, mut, out>>

Line ==
    \E p1 \in DrawPoints, p2 \in DrawPoints :
        Draw("DrawLine", <<p1, p2, Red>>, DrawLine(Drawing(img), p1, p2, Red))

Rectangle ==
    \E p1 \in DrawPoints, width \in 0..MaxCanvas, height \in 0..MaxCanvas :
        Draw("DrawRectangle", <<p1, width, height, Red>>,
             DrawRectangle(Drawing(img), p1, width, height, Red))

FilledRectangle ==
    \E p1 \in DrawPoints, width \in 0..MaxCanvas, height \in 0..MaxCanvas :
        Draw("DrawFilledRectangle", <<p1, width, height, Red>>,
             DrawFilledRectangle(Drawing(img), p1, width, height, Red))

Circle ==
    \E center \in DrawPoints, radius \in 0..MaxRadius :
        Draw("DrawCircle", <<center, radius, Red>>,
             DrawCircle(Drawing(img), center, radius, Red))

FilledCircle ==
    \E center \in DrawPoints, radius \in 0..MaxRadius :
        Draw("DrawFilledCircle", <<center, radius, Red>>,
             DrawFilledCircle(Drawing(img), center, radius, Red))

\* two corners of the image i, and the points beside its two other corners
Corners(i) ==
    {Point(0, 0), Point(i.width - 1, i.height - 1),
     Point(i.width, 0), Point(-1, i.height - 1)}

\* one vertex anywhere inside the canvas, two at or beside its corners
Triangle ==
    \E p1 \in PointsIn(img), p2 \in Corners(img), p3 \in Corners(img) :
        Draw("DrawTriangle", <<p1, p2, p3, Red>>,
             DrawTriangle(Drawing(img), p1, p2, p3, Red))

\* the first and the last point of the image i
Ends(i) == {Point(0, 0), Point(i.width - 1, i.height - 1)}

\* three vertices inside the canvas, one of them at the first or the last
\* point, on either build
FilledTriangle ==
    \E p1 \in PointsIn(img), p2 \in PointsIn(img), p3 \in Ends(img),
       build \in Builds :
        Draw("DrawFilledTriangle", <<p1, p2, p3, Red>>,
             DrawFilledTriangle(Drawing(img), p1, p2, p3, Red, build))

\* the axis-aligned rectangles with corners inside the image i, from the
\* top left corner clockwise
Rectangles(i) ==
    {<<Point(x1, y1), Point(x2, y1), Point(x2, y2), Point(x1, y2)>> :
        <<x1, x2, y1, y2>> \in
            {q \in (0..(i.width - 1)) \X (0..(i.width - 1))
                   \X (0..(i.height - 1)) \X (0..(i.height - 1)) :
                q[1] < q[2] /\ q[3] < q[4]}}

\* the triangles with one vertex anywhere inside the image i and two at
\* corners of it, the three not on one line
CornerTriangles(i) ==
    {<<p1, p2, p3>> :
        <<p1, p2, p3>> \in
            {t \in PointsIn(i)
                   \X {Point(0, 0), Point(i.width - 1, 0)}
                   \X {Point(0, i.height - 1), Point(i.width - 1, i.height - 1)} :
                (t[2].X - t[1].X) * (t[3].Y - t[1].Y)
                    # (t[3].X - t[1].X) * (t[2].Y - t[1].Y)}}

\* polygons with every vertex inside the image i
Polygons(i) == Rectangles(i) \cup CornerTriangles(i)

Polygon ==
    \E points \in Polygons(img) :
        Draw("DrawPolygon", <<points, Red>>,
             DrawPolygon(Drawing(img), points, Red))

FilledPolygon ==
    \E points \in Polygons(img) :
        Draw("DrawFilledPolygon", <<points, Red>>,
             DrawFilledPolygon(Drawing(img), points, Red))

DrawNext ==
    \/ Line
    \/ Rectangle
    \/ FilledRectangle
    \/ Circle
    \/ FilledCircle
    \/ Triangle
    \/ FilledTriangle
    \/ Polygon
    \/ FilledPolygon

DrawSpec == DrawInit /\ [][DrawNext]_vars

---------------------------------------------------------------------------
(* CodecSpec: an image is saved, the file is possibly edited once, and the *)
(* file is read back                                                       *)

\* single rows wider than one byte: alternating from 1, alternating from
\* 0, all set, all clear
WideWidths == {9, 10, 16, 17}

WideRow(p, w) ==
    [x \in 1..w |-> CASE p = 0 -> x % 2 = 1
                      [] p = 1 -> x % 2 = 0
                      [] p = 2 -> TRUE
                      [] p = 3 -> FALSE]

WidePBM == {NewPBM(<<WideRow(p, w)>>, w, 1, m) :
               p \in 0..3, w \in WideWidths, m \in {P1, P4}}

\* two rows that together are as long as the reader's buffer
BigPBM ==
    LET w == 8 * (defaultBufSize \div 2)
    IN  NewPBM(BitData(0, w, 2), w, 2, P4)

BigPGM ==
    LET w == defaultBufSize \div 2
    IN  NewPGM(GrayData(0, w, 2), w, 2, P5, 255)

\* every bitmap of at most MaxW x MaxH
AllBitData(w, h) == [1..h -> [1..w -> BOOLEAN]]

CodecImages(k) ==
    CASE k = "PBM" ->
           UNION {{NewPBM(d, w, h, m) : d \in AllBitData(w, h), m \in MagicOf(k)} :
                     w \in 1..MaxW, h \in 1..MaxH}
           \cup WidePBM \cup {BigPBM}
      [] k = "PGM" ->
           SeedImages(k)
           \cup {NewPGM(GrayData(s, 1, 1), 1, 1, m, 1) : s \in 0..MaxSeed, m \in MagicOf(k)}
           \cup {BigPGM}
      [] k = "PPM" ->
           SeedImages(k)
           \cup {NewPGM(PixelData(s, 1, 1), 1, 1, P3, 1) : s \in 0..MaxSeed}

SaveOf(k, i) ==
    CASE k = "PBM" -> PBMSave(i)
      [] k = "PGM" -> PGMSave(i)
      [] k = "PPM" -> PPMSave(i)

ReadOf(k, f) ==
    CASE k = "PBM" -> ReadPBM(f)
      [] k = "PGM" -> ReadPGM(f)
      [] k = "PPM" -> ReadPPM(f)

HeaderOf(k, i) ==
    CASE k = "PBM" -> PBMHeader(i)
      [] k = "PGM" -> PGMHeader(i)
      [] k = "PPM" -> PPMHeader(i)

CodecInit ==
    /\ kind \in Kinds
    /\ img \in CodecImages(kind)
    /\ op1 = "none"
    /\ arg1 = <<>>
    /\ ret1 = NoReturn
    /\ prev1 = NoImage
    /\ nops = 0
    /\ pc = "mem"
    /\ file = <<>>
    /\ file0 = <<>>
    /\ mut = "none"
    /\ out = NoOutput

Save ==
    /\ pc = "mem"
    /\ ~SaveOf(kind, img).err
    /\ file' = SaveOf(kind, img).bytes
    /\ file0' = file'
    /\ pc' = "saved"
    /\ UNCHANGED <<kind, img, op1, arg1, ret1, prev1, nops, mut, out>>

Edit(name, bytes) ==
    /\ pc = "saved"
    /\ mut = "none"
    /\ file' = bytes
    /\ mut' = name
    /\ UNCHANGED <<kind, img, op1, arg1, ret1, prev1, nops, pc, file0, out>>

\* the first line names no format, or the format of another decoder
AllMagic == {P1, P2, P3, P4, P5, P6, P9}

ForeignMagic(k) ==
    CASE k = "PBM" -> AllMagic \ {P1, P4}
      [] k = "PGM" -> AllMagic \ {P2, P5}
      [] k = "PPM" -> AllMagic \ {P3, P6}

EditMagic ==
    \E m \in ForeignMagic(kind) :
        Edit("magic", m \o SubSeq(file, Len(img.magicNumber) + 1, Len(file)))

\* a binary file loses its last bytes
Truncate ==
    /\ img.magicNumber \in {P4, P5}
    /\ \E cut \in 1..MaxCut :
          /\ cut <= Len(file) - Len(HeaderOf(kind, img))
          /\ Edit("truncate", SubSeq(file, 1, Len(file) - cut))

\* the rows of an ASCII file with the last token of row y removed
ShortRows(i, y) ==
    Concat([r \in 1..i.height |->
              LET w == IF r = y THEN i.width - 1 ELSE i.width
              IN  IF i.magicNumber = P1 THEN saveP1Row(i.data[r], w)
                  ELSE saveP2PGMRow(i.data[r], w)])

DropToken ==
    /\ img.magicNumber \in {P1, P2}
    /\ \E y \in 1..img.height :
          Edit("droptoken", HeaderOf(kind, img) \o ShortRows(img, y))

\* "#\n", "# c\n", and the two together
Comments == {<<HASH, NL>>, <<HASH, SP, 99, NL>>, <<HASH, SP, 99, NL, HASH, NL>>}

\* comment lines between the magic-number line and the dimension line
InsertComment ==
    \E c \in Comments :
        Edit("comment", SubSeq(file, 1, Len(img.magicNumber) + 1) \o c
                        \o SubSeq(file, Len(img.magicNumber) + 2, Len(file)))

Read ==
    /\ pc = "saved"
    /\ out' = ReadOf(kind, file)
    /\ pc' = "read"
    /\ UNCHANGED <<kind, img, op1, arg1, ret1, prev1, nops, file, file0, mut>>

CodecNext ==
    \/ Save
    \/ EditMagic
    \/ Truncate
    \/ DropToken
    \/ InsertComment
    \/ Read

CodecSpec == CodecInit /\ [][CodecNext]_vars

---------------------------------------------------------------------------
(* Properties *)

\* the file was saved and read back unedited
ReadBack(k) == pc = "read" /\ kind = k /\ mut = "none"

\* the decoder returned exactly the image that was saved
SameImage == ~out.err /\ out.img = img

\* the decoder returned an error and no image
Rejected == out.err /\ ~out.panic /\ out.img = NoImage

\* C1: a PBM image (P1 or P4, width and height at least 1) that is saved
\* and read back comes back with the same magic number, width, height and
\* pixels.
C1_PBMRoundTrip == ReadBack("PBM") => SameImage

\* the least k with 8k >= w
CeilDiv8(w) == CHOOSE k \in 0..w : 8 * k >= w /\ 8 * (k - 1) < w

BitOf(byte, n) == (byte \div (2 ^ n)) % 2

SavedP4 == pc = "saved" /\ mut = "none" /\ kind = "PBM" /\ img.magicNumber = P4

P4Body == SubSeq(file, Len(PBMHeader(img)) + 1, Len(file))

ExampleRow == <<TRUE, FALSE, TRUE, FALSE, TRUE, FALSE, TRUE, FALSE, TRUE, FALSE>>

\* C2: the body of a saved P4 file holds ceil(width/8) bytes per row; the
\* pixel of column x is bit 7 - (x mod 8) of byte x div 8 of its row, the
\* padding bits after column width-1 are 0, and the row 1010101010 is
\* packed as 0b10101010, 0b10000000.
C2_BitPacking ==
    SavedP4 =>
        LET k == CeilDiv8(img.width)
        IN  /\ Len(P4Body) = img.height * k
            /\ \A y \in 1..img.height, x \in 0..(8 * k - 1) :
                  BitOf(P4Body[(y - 1) * k + (x \div 8) + 1], 7 - (x % 8))
                    = IF x < img.width /\ img.data[y][x + 1] THEN 1 ELSE 0
            /\ (img.width = 10 /\ img.data[1] = ExampleRow)
                  => SubSeq(P4Body, 1, 2) = <<170, 128>>

C2_Witness ==
    /\ SavedP4
    /\ img.width = 10
    /\ img.data[1] = ExampleRow
    /\ P4Body = <<170, 128>>

\* C3: a PGM image (P2 or P5, max value in 1..255) that is saved and read
\* back comes back with the same magic number, width, height, max value
\* and samples.
C3_PGMRoundTrip == ReadBack("PGM") => SameImage

\* C4: a P3 PPM image (max value in 1..255) that is saved and read back
\* comes back with the same magic number, width, height, max value and
\* the same R, G and B of every pixel.
C4_PPMRoundTrip == ReadBack("PPM") => SameImage

C4_Witness ==
    /\ ReadBack("PPM")
    /\ img.width >= 2
    /\ img.height >= 2
    /\ img.magicNumber = P3
    /\ img.data[1][1] # img.data[2][2]
    /\ out.img.data = img.data

\* the raster has height rows of width samples
WellFormed(i) ==
    /\ Len(i.data) = i.height
    /\ \A y \in 1..Len(i.data) : Len(i.data[y]) = i.width

\* C5: after any sequence of Invert, Flip, Flop, Rotate90CW,
\* SetMagicNumber, SetMaxValue and in-bounds Set the raster has exactly
\* height rows of exactly width samples, and the step of Rotate90CW that
\* replaces the raster also exchanges width and height.
C5_HeaderMatchesRaster ==
    /\ WellFormed(img)
    /\ op1 = "Rotate90CW" =>
          /\ img.width = prev1.height
          /\ img.height = prev1.width

C5_Witness ==
    /\ kind = "PPM"
    /\ op1 = "Rotate90CW"
    /\ nops = MaxOps
    /\ prev1.width # prev1.height
    /\ Len(img.data) = prev1.width
    /\ img.height = prev1.width

\* C6: a file whose first line is not a magic number of the decoder's
\* family is rejected by ReadPBM, ReadPGM and ReadPPM: an error, no image.
C6_ForeignMagicRejected == (pc = "read" /\ mut = "magic") => Rejected

\* C7: a P4 or P5 file with fewer body bytes than the header declares is
\* rejected: an error and no image, never a partly filled one.
C7_TruncatedRejected == (pc = "read" /\ mut = "truncate") => Rejected

\* a row of two bytes that lost its second byte, so that Read returns 1
C7_Witness ==
    /\ pc = "read"
    /\ mut = "truncate"
    /\ kind = "PBM"
    /\ img.width = 10
    /\ Len(file) = Len(file0) - 1
    /\ Rejected

\* C8: a P1 or P2 file with a row of fewer than width tokens is rejected.
C8_ShortRowRejected == (pc = "read" /\ mut = "droptoken") => Rejected

\* C9: comment lines between the magic-number line and the dimension line
\* of a PBM or PGM file do not change what the decoder returns, and it
\* returns no error.
C9_CommentsSkipped ==
    (pc = "read" /\ mut = "comment" /\ kind \in {"PBM", "PGM"})
        => (~out.err /\ out = ReadOf(kind, file0))

InvertOf(k, i) ==
    CASE k = "PBM" -> PBMInvert(i)
      [] k = "PGM" -> PGMInvert(i)
      [] k = "PPM" -> PPMInvert(i)

\* C10: after one Invert, a second Invert gives back every sample of the
\* image before the first, also where a sample exceeds the max value and
\* the subtraction wraps; Invert changes neither width, height, magic
\* number nor max value.
C10_InvertTwice ==
    op1 = "Invert" =>
        /\ InvertOf(kind, img) = prev1
        /\ img.width = prev1.width
        /\ img.height = prev1.height
        /\ img.magicNumber = prev1.magicNumber
        /\ kind # "PBM" => img.max = prev1.max

\* a gray sample above the max value, inverted with wrap-around
C10_Witness ==
    /\ op1 = "Invert"
    /\ kind = "PGM"
    /\ prev1.data[1][1] > prev1.max
    /\ img.data[1][1] = 256 + prev1.max - prev1.data[1][1]
    /\ InvertOf(kind, img).data[1][1] = prev1.data[1][1]

---------------------------------------------------------------------------
FlipOf(k, i) ==
    CASE k = "PBM" -> PBMFlip(i)
      [] k = "PGM" -> PGMFlip(i)
      [] k = "PPM" -> PPMFlip(i)

FlopOf(k, i) ==
    CASE k = "PBM" -> PBMFlop(i)
      [] k = "PGM" -> PGMFlop(i)
      [] k = "PPM" -> PPMFlop(i)

\* width, height, magic number and (PGM, PPM) max value of a are those of b
SameHeader(k, a, b) ==
    /\ a.width = b.width
    /\ a.height = b.height
    /\ a.magicNumber = b.magicNumber
    /\ k # "PBM" => a.max = b.max

\* C11: after Flip the sample at (x, y) is the one formerly at
\* (width-1-x, y), after Flop the one formerly at (x, height-1-y), for PBM,
\* PGM and PPM; width, height, magic number and max value are unchanged, and
\* a second Flip (Flop) restores the image.
C11_FlipFlopMirror ==
    /\ op1 = "Flip" =>
          /\ SameHeader(kind, img, prev1)
          /\ Len(img.data) = prev1.height
          /\ \A y \in 1..prev1.height :
                /\ Len(img.data[y]) = prev1.width
                /\ \A x \in 1..prev1.width :
                      img.data[y][x] = prev1.data[y][prev1.width + 1 - x]
          /\ FlipOf(kind, img) = prev1
    /\ op1 = "Flop" =>
          /\ SameHeader(kind, img, prev1)
          /\ Len(img.data) = prev1.height
          /\ \A y \in 1..prev1.height :
                img.data[y] = prev1.data[prev1.height + 1 - y]
          /\ FlopOf(kind, img) = prev1

\* a Flop of an image of odd height 3 (a rotated 3-wide image) moved samples
C11_Witness ==
    /\ op1 = "Flop"
    /\ img.height = 3
    /\ img.data[1] # prev1.data[1]
    /\ img.data[2] = prev1.data[2]

---------------------------------------------------------------------------
RotateOf(k, i) == IF k = "PGM" THEN PGMRotate90CW(i) ELSE PPMRotate90CW(i)

\* C12: Rotate90CW on a PGM or PPM image of width w and height h leaves w
\* rows of h samples with output row i, column j = input row h-1-j, column
\* i, stores width h and height w, and three more applications restore the
\* dimensions and every sample.
C12_Rotate90CW ==
    op1 = "Rotate90CW" =>
        /\ img.width = prev1.height
        /\ img.height = prev1.width
        /\ img.magicNumber = prev1.magicNumber
        /\ img.max = prev1.max
        /\ Len(img.data) = prev1.width
        /\ \A i \in 1..prev1.width :
              /\ Len(img.data[i]) = prev1.height
              /\ \A j \in 1..prev1.height :
                    img.data[i][j] = prev1.data[prev1.height + 1 - j][i]
        /\ RotateOf(kind, RotateOf(kind, RotateOf(kind, img))) = prev1

\* a PGM image of 3 columns and 2 rows was rotated
C12_Witness ==
    /\ op1 = "Rotate90CW"
    /\ kind = "PGM"
    /\ prev1.width = 3
    /\ prev1.height = 2
    /\ img.data[1] = <<prev1.data[2][1], prev1.data[1][1]>>

---------------------------------------------------------------------------
\* every sample of the PGM image i is in 0..max
SamplesWithinMax(i) ==
    \A y \in 1..i.height : \A x \in 1..i.width : i.data[y][x] <= i.max

\* the integers nearest to a / m (two of them when a / m is half-way)
Nearest(a, m) == {q \in {a \div m, (a \div m) + 1} :
                    \A r \in {a \div m, (a \div m) + 1} :
                        (IF q * m >= a THEN q * m - a ELSE a - q * m)
                            <= (IF r * m >= a THEN r * m - a ELSE a - r * m)}

\* C13: SetMaxValue(n), n in 1..255, on a PGM image with max value m > 0
\* replaces every sample s by s*n/m rounded to the nearest integer and
\* stores n as the max value.
C13_RescaleRounds ==
    (/\ op1 = "SetMaxValue"
     /\ kind = "PGM"
     /\ prev1.max > 0
     /\ SamplesWithinMax(prev1)
     /\ arg1[1] \in 1..255)
    => /\ img.max = arg1[1]
       /\ \A y \in 1..prev1.height : \A x \in 1..prev1.width :
             img.data[y][x] \in Nearest(prev1.data[y][x] * arg1[1], prev1.max)

---------------------------------------------------------------------------
\* C14: SetMaxValue(0) on a PGM or PPM image fails with an error and leaves
\* every sample and the stored max value unchanged, and SetMaxValue on an
\* image whose max value is 0 is rejected before any division by it.
C14_ZeroMaxRejected ==
    (op1 = "SetMaxValue" /\ (arg1[1] = 0 \/ prev1.max = 0))
    => /\ ret1.err
       /\ img = prev1

---------------------------------------------------------------------------
\* C15: ToPGM returns a new PGM image of the same width, height and max
\* value whose sample at (x, y) is 0.299*R + 0.587*G + 0.114*B of the source
\* pixel rounded to the nearest integer, and leaves the source unchanged.
C15_ToPGMRoundsLuma ==
    op1 = "ToPGM" =>
        /\ img = prev1
        /\ ~ret1.panic
        /\ ret1.val.width = prev1.width
        /\ ret1.val.height = prev1.height
        /\ ret1.val.max = prev1.max
        /\ Len(ret1.val.data) = prev1.height
        /\ \A y \in 1..prev1.height :
              /\ Len(ret1.val.data[y]) = prev1.width
              /\ \A x \in 1..prev1.width :
                    ret1.val.data[y][x]
                        \in Nearest(LumaMilli(prev1.data[y][x]), 1000)

---------------------------------------------------------------------------
\* 2000 times the brightness of the sample or pixel v of a k image
Brightness2000(k, v) == IF k = "PGM" THEN 2000 * v ELSE 2 * LumaMilli(v)

\* C16: the bitmap ToPBM returns for a PGM or PPM image has the same width
\* and height, and its pixel at (x, y) is true exactly when the brightness
\* of the source pixel (the gray sample, the luma of the RGB pixel) exceeds
\* maxValue/2; a PGM sample of 200 with max value 255 yields true.
C16_ToPBMThreshold ==
    op1 = "ToPBM" =>
        /\ ~ret1.panic
        /\ ret1.val.width = prev1.width
        /\ ret1.val.height = prev1.height
        /\ Len(ret1.val.data) = prev1.height
        /\ \A y \in 1..prev1.height :
              /\ Len(ret1.val.data[y]) = prev1.width
              /\ \A x \in 1..prev1.width :
                    LET b == Brightness2000(kind, prev1.data[y][x])
                    IN  /\ b > 1000 * prev1.max => ret1.val.data[y][x]
                        /\ b < 1000 * prev1.max => ~ret1.val.data[y][x]

---------------------------------------------------------------------------
\* (x, y) is outside 0..width-1 / 0..height-1 of the image i
OutOfRange(i, x, y) == ~(x \in 0..(i.width - 1) /\ y \in 0..(i.height - 1))

ZeroSample(k) ==
    CASE k = "PBM" -> FALSE
      [] k = "PGM" -> 0
      [] k = "PPM" -> [R |-> 0, G |-> 0, B |-> 0]

\* C19: for PBM, PGM and PPM alike, At(x, y) with x or y outside the image
\* returns the zero sample and Set(x, y, v) with such coordinates leaves the
\* image unchanged; neither aborts.
C19_UniformOutOfRange ==
    /\ (op1 = "At" /\ OutOfRange(prev1, arg1[1], arg1[2])) =>
          /\ ~ret1.panic
          /\ ret1.val = ZeroSample(kind)
          /\ img = prev1
    /\ (op1 = "Set" /\ OutOfRange(prev1, arg1[1], arg1[2])) =>
          /\ ~ret1.panic
          /\ img = prev1

---------------------------------------------------------------------------
\* the pixel of the image i at the address (x, y)
PixelAt(i, x, y) == i.data[y + 1][x + 1]

\* the addresses nearest to the point i of steps on the segment p1 p2:
\* p1 + i*d/steps in each coordinate (both neighbours of a half-way value)
NearestAddresses(p1, p2, steps, i) ==
    {<<x, y>> : x \in Nearest(p1.X * steps + i * (p2.X - p1.X), steps),
                y \in Nearest(p1.Y * steps + i * (p2.Y - p1.Y), steps)}

\* C17: for endpoints p1 # p2 inside the canvas and steps = max(|dx|, |dy|),
\* DrawLine(p1, p2, c) sets to c exactly the pixels (p1.X + i*dx/steps,
\* p1.Y + i*dy/steps), each coordinate rounded to the nearest integer, for
\* i = 0..steps (p1 and p2 among them), and leaves every other pixel as it
\* was; DrawLine((0,0),(3,3)) sets exactly (0,0), (1,1), (2,2), (3,3).
C17_LineSetsSteppedPixels ==
    (/\ op1 = "DrawLine"
     /\ arg1[1] \in PointsIn(prev1)
     /\ arg1[2] \in PointsIn(prev1)
     /\ arg1[1] # arg1[2])
    => LET p1 == arg1[1]
           p2 == arg1[2]
           steps == Max(Abs(p2.X - p1.X), Abs(p2.Y - p1.Y))
           line == UNION {NearestAddresses(p1, p2, steps, i) : i \in 0..steps}
       IN  /\ ~ret1.panic
           /\ \A i \in 0..steps :
                 \E a \in NearestAddresses(p1, p2, steps, i) :
                     PixelAt(img, a[1], a[2]) = arg1[3]
           /\ PixelAt(img, p1.X, p1.Y) = arg1[3]
           /\ PixelAt(img, p2.X, p2.Y) = arg1[3]
           /\ \A x \in 0..(prev1.width - 1), y \in 0..(prev1.height - 1) :
                 <<x, y>> \notin line => PixelAt(img, x, y) = PixelAt(prev1, x, y)

---------------------------------------------------------------------------
DrawingCalls ==
    {"DrawLine", "DrawRectangle", "DrawFilledRectangle", "DrawCircle",
     "DrawFilledCircle", "DrawTriangle", "DrawFilledTriangle", "DrawPolygon",
     "DrawFilledPolygon"}

\* C18: a drawing call skips every pixel address outside the canvas without
\* a failure: the call completes, and width, height and the shape of the
\* raster are unchanged.
C18_DrawingClips ==
    op1 \in DrawingCalls =>
        /\ ~ret1.panic
        /\ SameHeader(kind, img, prev1)
        /\ WellFormed(img)

---------------------------------------------------------------------------
\* C20: DrawLine(p, p, c) with p inside the canvas completes (steps is 0),
\* sets the one pixel p to c and leaves every other pixel unchanged.
C20_DegenerateLine ==
    (/\ op1 = "DrawLine"
     /\ arg1[1] = arg1[2]
     /\ arg1[1] \in PointsIn(prev1))
    => /\ ~ret1.panic
       /\ img = [prev1 EXCEPT !.data[arg1[1].Y + 1][arg1[1].X + 1] = arg1[3]]

\* the line from (2, 3) to (2, 3) turned that pixel, and no other, red
C20_Witness ==
    /\ op1 = "DrawLine"
    /\ arg1[1] = Point(2, 3)
    /\ arg1[2] = Point(2, 3)
    /\ ~ret1.panic
    /\ PixelAt(img, 2, 3) = Red
    /\ PixelAt(prev1, 2, 3) # Red
    /\ \A x \in 0..3, y \in 0..3 :
          <<x, y>> # <<2, 3>> => PixelAt(img, x, y) = PixelAt(prev1, x, y)

---------------------------------------------------------------------------
\* the least and the greatest Y of the vertices of a triangle
TopY(p1, p2, p3) == MinYFrom(<<p1, p2, p3>>, 1)

BottomY(p1, p2, p3) == MaxYFrom(<<p1, p2, p3>>, 1)

\* the call was DrawFilledTriangle with its three vertices inside the canvas
FilledTriangleInside ==
    /\ op1 = "DrawFilledTriangle"
    /\ {arg1[1], arg1[2], arg1[3]} \subseteq PointsIn(prev1)

\* C21: DrawFilledTriangle with three vertices inside the canvas, of which
\* two or all three may have the same Y, completes, sets the three vertices
\* (the ends of its scanlines) to the colour, and changes no pixel outside
\* the rows from the least to the greatest Y of the vertices.
C21_FilledTriangle ==
    FilledTriangleInside =>
        /\ ~ret1.panic
        /\ \A k \in 1..3 : PixelAt(img, arg1[k].X, arg1[k].Y) = arg1[4]
        /\ \A y \in 0..(prev1.height - 1) :
              (y < TopY(arg1[1], arg1[2], arg1[3])
               \/ y > BottomY(arg1[1], arg1[2], arg1[3]))
              => img.data[y + 1] = prev1.data[y + 1]

---------------------------------------------------------------------------
\* the X of the intersections of the scanline y with the edges of the
\* polygon that cross it
CrossingsAt(points, y) ==
    {Intersection(points[k], points[(k % Len(points)) + 1], y) :
        k \in {j \in 1..Len(points) :
                  Crosses(y, points[j].Y, points[(j % Len(points)) + 1].Y)}}

Least(xs) == CHOOSE x \in xs : \A z \in xs : x <= z

Greatest(xs) == CHOOSE x \in xs : \A z \in xs : x >= z

\* C22: DrawFilledPolygon with a rectangle or triangle inside the canvas
\* (on every scanline of which there are no or two edge intersections)
\* completes, sets to the colour every pixel strictly between the two
\* intersections of its scanline, leaves unchanged every pixel left of the
\* first and right of the second one and every pixel of a row without
\* intersections, and so sets every pixel strictly inside an axis-aligned
\* rectangle given as four vertices.
C22_FilledPolygon ==
    (/\ op1 = "DrawFilledPolygon"
     /\ arg1[1] \in Polygons(prev1))
    => /\ ~ret1.panic
       /\ \A x \in 0..(prev1.width - 1), y \in 0..(prev1.height - 1) :
             LET xs == CrossingsAt(arg1[1], y)
             IN  IF xs = {} \/ x < Least(xs) \/ x > Greatest(xs)
                 THEN PixelAt(img, x, y) = PixelAt(prev1, x, y)
                 ELSE (Least(xs) < x /\ x < Greatest(xs))
                      => PixelAt(img, x, y) = arg1[2]
       /\ arg1[1] \in Rectangles(prev1) =>
             \A x \in (arg1[1][1].X + 1)..(arg1[1][3].X - 1),
                y \in (arg1[1][1].Y + 1)..(arg1[1][3].Y - 1) :
                 PixelAt(img, x, y) = arg1[2]

\* DrawFilledPolygon never sets a pixel strictly inside an axis-aligned
\* rectangle given clockwise from its top left corner
RectangleFillSetsNothing ==
    (/\ op1 = "DrawFilledPolygon"
     /\ arg1[1] \in Rectangles(prev1))
    => img = prev1

---------------------------------------------------------------------------
\* every channel of every pixel of the PPM image i is in 0..max
ChannelsWithinMax(i) ==
    \A y \in 1..i.height : \A x \in 1..i.width :
        /\ i.data[y][x].R <= i.max
        /\ i.data[y][x].G <= i.max
        /\ i.data[y][x].B <= i.max

\* every sample of the image i of kind k is in 0..max, and max is in 1..255
WithinMax(k, i) ==
    /\ i.max \in 1..255
    /\ IF k = "PGM" THEN SamplesWithinMax(i) ELSE ChannelsWithinMax(i)

\* the last call was Invert, Flip, Flop, Rotate90CW or SetMaxValue(n) with n
\* in 1..255, on a PGM or PPM image whose samples were all in 0..max
RangeKeepingCall ==
    /\ kind \in {"PGM", "PPM"}
    /\ \/ op1 \in {"Invert", "Flip", "Flop", "Rotate90CW"}
       \/ op1 = "SetMaxValue" /\ arg1[1] \in 1..255
    /\ WithinMax(kind, prev1)

\* C23: Invert, Flip, Flop, Rotate90CW and SetMaxValue(n) with n in 1..255
\* each take a PGM or PPM image whose samples (channels) are all in 0..max
\* to an image whose samples are all in 0..max for the max it then stores;
\* so the samples stay in range after any sequence of these calls.
C23_SamplesStayWithinMax ==
    RangeKeepingCall => WithinMax(kind, img)

\* the same for PGM images alone, where SetMaxValue rescales the samples
PGMSamplesStayWithinMax ==
    (kind = "PGM" /\ RangeKeepingCall) => WithinMax(kind, img)

====
